---------------------------- MODULE Spec2Model ----------------------------
(***************************************************************************)
(* Device health monitoring and reconciliation loop of the koordlet        *)
(* states informer (src/pkg/webhook/pod/validating/validating_handler.go,  *)
(* lines 146-403, package statesinformer).                                 *)
(*                                                                         *)
(*   reportDevice  -> buildGPUDevice -> updateDevice -> createDevice       *)
(*   gpuHealCheck  -> go checkHealth ; drains the channel into unhealthyGPU*)
(*                                                                         *)
(* The object store (deviceClient), the metrics cache and the NVML library *)
(* are external collaborators: they are modelled by their contract, every  *)
(* answer they can give being a nondeterministic choice.                   *)
(***************************************************************************)
EXTENDS Integers, Sequences, FiniteSets, TLC

(***************************************************************************)
(* Bounds of the model.                                                    *)
(***************************************************************************)
\* number of GPUs plugged into the node
MaxGPU == 2
\* reportDevice / buildGPUDevice calls made by one caller
MaxCycles == 2
\* writes made to the Device object by writers other than this koordlet
MaxOtherWrites == 1
\* attempts of the retry policy behind RetryOnConflictOrTooManyRequests
MaxAttempts == 2

(***************************************************************************)
(* The hardware: GPU i has a UUID, the minor number i and a total memory.  *)
(***************************************************************************)
GPUIndexes == 0 .. (MaxGPU - 1)

UUIDOf(i) == "GPU-" \o ToString(i)

MemoryTotalOf(i) == 16 * (i + 1)

AllUUIDs == {UUIDOf(i) : i \in GPUIndexes}

\* the identifier len(uuid) == 0 tests for
EmptyUUID == ""

\* metriccache GPUMetric of device i: DeviceUUID, Minor, MemoryTotal
GPUMetric(i) ==
    [DeviceUUID |-> UUIDOf(i), Minor |-> i, MemoryTotal |-> MemoryTotalOf(i)]

\* sequences without repetition over S, of every length
DistinctSeqs(S) ==
    {s \in UNION {[1 .. n -> S] : n \in 0 .. Cardinality(S)} :
        \A a, b \in DOMAIN s : a # b => s[a] # s[b]}

\* what GetNodeResourceMetric can answer: an error, or the GPUs the
\* collector saw, any subset of the node's GPUs in any order
MetricResults ==
    {[Error |-> TRUE, GPUs |-> <<>>]} \cup
    {[Error |-> FALSE, GPUs |-> [k \in DOMAIN s |-> GPUMetric(s[k])]] :
        s \in DistinctSeqs(GPUIndexes)}

(***************************************************************************)
(* buildGPUDevice: one DeviceInfo per reported GPU.                        *)
(***************************************************************************)
\* a faulty variant: memory-ratio taken for memory
DeviceInfoMemSwapped(gpu, health) ==
    [UUID |-> gpu.DeviceUUID, Minor |-> gpu.Minor, Type |-> "gpu",
     Health |-> health,
     Resources |-> [GPUCore |-> 100, GPUMemory |-> 100,
                    GPUMemoryRatio |-> 100]]

DeviceInfo(gpu, health) ==
    [UUID |-> gpu.DeviceUUID, Minor |-> gpu.Minor, Type |-> "gpu",
     Health |-> health,
     Resources |-> [GPUCore |-> 100, GPUMemory |-> gpu.MemoryTotal,
                    GPUMemoryRatio |-> 100]]

\* health := true; if _, ok := s.unhealthyGPU[uuid]; ok { health = false }
HealthLookup(uuid, unhealthy) == uuid \notin unhealthy

(***************************************************************************)
(* updateDevice's sorter: sort.Slice by Minor, an insertion sort for the   *)
(* short slices of a node.                                                 *)
(***************************************************************************)
RECURSIVE InsertByMinor(_, _)
InsertByMinor(x, s) ==
    IF s = <<>> THEN <<x>>
    ELSE IF x.Minor < Head(s).Minor THEN <<x>> \o s
    ELSE <<Head(s)>> \o InsertByMinor(x, Tail(s))

RECURSIVE SortByMinor(_)
SortByMinor(devices) ==
    IF devices = <<>> THEN <<>>
    ELSE InsertByMinor(devices[Len(devices)],
                       SortByMinor(SubSeq(devices, 1, Len(devices) - 1)))

\* a faulty variant: the slice left in the order it came in
SorterSkipped(devices) == devices

sorter(devices) == SortByMinor(devices)

\* apiequality.Semantic.DeepEqual on two device lists: element-wise, a nil
\* slice equal to an empty one (both are <<>> here)
DeepEqual(a, b) == a = b

(***************************************************************************)
(* The Device objects other writers may store: any list of DeviceInfo of   *)
(* the node's GPUs, in any order, with any health.                         *)
(***************************************************************************)
OtherDeviceLists ==
    UNION {{[k \in DOMAIN s |-> DeviceInfo(GPUMetric(s[k]), h[k])] :
                h \in [DOMAIN s -> BOOLEAN]} :
            s \in DistinctSeqs(GPUIndexes)}

NoDevice == [exists |-> FALSE, devices |-> <<>>, rv |-> 0]

(***************************************************************************)
(* State.                                                                  *)
(***************************************************************************)
\* callers of reportDevice, and a caller of buildGPUDevice alone
Reporters == {"r1"}
Builders == {"b"}
\* two callers of reportDevice for the same node, their cycles overlapping
Overlapping == {"r1", "r2"}
Procs == Reporters \cup Builders \cup Overlapping

VARIABLES
    \* --- the object store
    store,          \* the Device object: exists, devices, rv (resourceVersion)
    otherWrites,    \* writes other writers have made
    \* --- statesInformer
    unhealthyGPU,   \* s.unhealthyGPU, the set of keys of the map
    gpuMutex,       \* s.gpuMutex: [w |-> writer holds it, r |-> readers]
    \* --- one frame per caller of reportDevice / buildGPUDevice
    pc,             \* position
    cycles,         \* calls started
    metric,         \* nodeResource of buildGPUDevice
    gpuDevices,     \* deviceInfos, then reportDevice's gpuDevices
    health,         \* buildGPUDevice's health
    attempt,        \* attempt of the retry policy, from 1
    fetchedRV,      \* resourceVersion of the object Get returned
    res,            \* what reportDevice logged: none, ok, failed, skipped
    \* --- observation of the current and the previous call
    updLog,         \* results of the Update calls of this cycle
    createLog,      \* result of the Create call of this cycle
    faulted,        \* the store rejected a call of this cycle on its own
    owStart,        \* otherWrites when the cycle started
    owConflict,     \* otherWrites when the first Update of the cycle conflicted
    unhealthyAtStart, \* unhealthyGPU when the build started
    prev,           \* the previous cycle of the caller
    \* --- the health monitor
    stopCh,         \* stopCh is closed
    pcHC,           \* position of gpuHealCheck
    pcCH,           \* position of checkHealth
    devs,           \* devices of gpuHealCheck, devs of checkHealth
    idx,            \* index of checkHealth's loop over devs
    uuid,           \* checkHealth's uuid, the device of the event
    recvd,          \* gpuHealCheck's d, received from the channel
    eventSet,       \* the NVML event set: none, held, freed
    \* --- observation of the monitor
    fallbackDone,   \* a loop of lines 391-393 has sent every device
    waitsAfterStop, \* eventSet.Wait calls made since stopCh was closed
    unsupported,    \* devices whose registration returned
                    \* ERROR_NOT_SUPPORTED, until the first Wait has returned
    appFault,       \* Wait has just returned a fault event with an
                    \* application Xid, of a device without UUID
    \* --- the pod validating webhook
    pcW,            \* position of Handle
    req,            \* the admission request
    validated,      \* the validations validatingPodFn has called
    resp            \* the admission response

rvars == <<store, otherWrites, pc, cycles, metric, gpuDevices, health,
           attempt, fetchedRV, res, updLog, createLog, faulted, owStart,
           owConflict, unhealthyAtStart, prev>>

mvars == <<stopCh, pcHC, pcCH, devs, idx, uuid, recvd, eventSet,
           fallbackDone, waitsAfterStop, unsupported, appFault>>

wvars == <<pcW, req, validated, resp>>

vars == <<rvars, unhealthyGPU, gpuMutex, mvars, wvars>>

\* os.Exit(1) has not ended the process
Alive == pcCH # "exited"

NoMetric == [Error |-> FALSE, GPUs |-> <<>>]

NoPrev == [valid |-> FALSE, snap |-> <<>>, res |-> "none", writes |-> 0,
           ow |-> 0]

(***************************************************************************)
(* The object store (deviceClient): Get, Update, Create.  A call is        *)
(* answered from the stored object, or rejected by the store on its own    *)
(* (TooManyRequests, or another error such as Forbidden).                  *)
(***************************************************************************)
\* Get(name, ResourceVersion "0")
GetResults == {IF store.exists THEN "nil" ELSE "NotFound",
               "TooManyRequests", "Other"}

\* a faulty variant: a store that does not compare resourceVersions
UpdateResultsUnchecked(rv) == {"nil", "TooManyRequests", "Other"}

\* Update(device): accepted only with the stored resourceVersion
UpdateResults(rv) == {IF store.rv = rv THEN "nil" ELSE "Conflict",
                       "TooManyRequests", "Other"}

\* Create(device)
CreateResults == {IF store.exists THEN "AlreadyExists" ELSE "nil", "Other"}

StoreFaults == {"TooManyRequests", "Other"}

Written(devices) ==
    [exists |-> TRUE, devices |-> devices, rv |-> store.rv + 1]

\* another writer creates or replaces the Device object of the node
OtherWrite ==
    /\ otherWrites < MaxOtherWrites
    /\ \E l \in OtherDeviceLists : store' = Written(l)
    /\ otherWrites' = otherWrites + 1
    /\ UNCHANGED <<wvars, mvars, unhealthyGPU, gpuMutex, pc, cycles, metric, gpuDevices,
                   health, attempt, fetchedRV, res, updLog, createLog,
                   faulted, owStart, owConflict, unhealthyAtStart, prev>>

(***************************************************************************)
(* util.RetryOnConflictOrTooManyRequests: run the closure again while it   *)
(* returns a conflict or a too-many-requests error and the retry policy    *)
(* has attempts left; return its last error otherwise.                     *)
(***************************************************************************)
Retriable(err) == err \in {"Conflict", "TooManyRequests"}

RetryAgain(c, err) == Retriable(err) /\ attempt[c] < MaxAttempts

(***************************************************************************)
(* reportDevice, lines 178-202, after updateDevice returned err: what it   *)
(* logs and whether it goes on to createDevice.                            *)
(***************************************************************************)
AfterUpdateDevice(c, err) ==
    IF err = "nil" THEN [pc |-> "done", res |-> "ok"]
    ELSE IF err # "NotFound" THEN [pc |-> "done", res |-> "failed"]
    ELSE IF Len(gpuDevices[c]) = 0 THEN [pc |-> "done", res |-> "skipped"]
    ELSE [pc |-> "create", res |-> res[c]]

\* one attempt of updateDevice's closure returned err
AfterAttempt(c, err) ==
    IF RetryAgain(c, err)
    THEN [pc |-> "get", res |-> res[c], attempt |-> attempt[c] + 1]
    ELSE [pc |-> AfterUpdateDevice(c, err).pc,
          res |-> AfterUpdateDevice(c, err).res, attempt |-> attempt[c]]

Writes(c) ==
    Cardinality({k \in DOMAIN updLog[c] : updLog[c][k] = "nil"})
    + (IF createLog[c] = "nil" THEN 1 ELSE 0)

(***************************************************************************)
(* reportDevice, line 178: the periodic driver calls it.                   *)
(***************************************************************************)
reportDevice(c) ==
    /\ c \in Reporters \cup Overlapping
    /\ Alive
    /\ pc[c] \in {"idle", "done"}
    /\ cycles[c] < MaxCycles
    /\ cycles' = [cycles EXCEPT ![c] = @ + 1]
    /\ pc' = [pc EXCEPT ![c] = "query"]
    /\ prev' = [prev EXCEPT ![c] =
                  IF pc[c] = "done"
                  THEN [valid |-> TRUE, snap |-> gpuDevices[c],
                        res |-> res[c], writes |-> Writes(c),
                        ow |-> owStart[c]]
                  ELSE NoPrev]
    /\ metric' = [metric EXCEPT ![c] = NoMetric]
    /\ gpuDevices' = [gpuDevices EXCEPT ![c] = <<>>]
    /\ attempt' = [attempt EXCEPT ![c] = 1]
    /\ fetchedRV' = [fetchedRV EXCEPT ![c] = 0]
    /\ res' = [res EXCEPT ![c] = "none"]
    /\ updLog' = [updLog EXCEPT ![c] = <<>>]
    /\ createLog' = [createLog EXCEPT ![c] = "none"]
    /\ faulted' = [faulted EXCEPT ![c] = FALSE]
    /\ owStart' = [owStart EXCEPT ![c] = otherWrites]
    /\ owConflict' = [owConflict EXCEPT ![c] = 0]
    /\ UNCHANGED <<wvars, mvars, store, otherWrites, unhealthyGPU, gpuMutex, health,
                   unhealthyAtStart>>

(***************************************************************************)
(* buildGPUDevice, lines 256-288.                                          *)
(***************************************************************************)
\* a caller other than reportDevice calls buildGPUDevice
callBuildGPUDevice(c) ==
    /\ c \in Builders
    /\ Alive
    /\ pc[c] \in {"idle", "built"}
    /\ pc' = [pc EXCEPT ![c] = "query"]
    /\ metric' = [metric EXCEPT ![c] = NoMetric]
    /\ gpuDevices' = [gpuDevices EXCEPT ![c] = <<>>]
    /\ UNCHANGED <<wvars, mvars, store, otherWrites, unhealthyGPU, gpuMutex, cycles,
                   health, attempt, fetchedRV, res, updLog, createLog,
                   faulted, owStart, owConflict, unhealthyAtStart, prev>>

\* lines 257-267: the query; an error or no GPU returns nil
buildQuery(c) ==
    /\ pc[c] = "query"
    /\ Alive
    /\ \E m \in MetricResults :
          /\ metric' = [metric EXCEPT ![c] = m]
          /\ pc' = [pc EXCEPT ![c] =
                      IF m.Error \/ Len(m.GPUs) = 0 THEN "built"
                      ELSE "rlock"]
    /\ gpuDevices' = [gpuDevices EXCEPT ![c] = <<>>]
    /\ unhealthyAtStart' = [unhealthyAtStart EXCEPT ![c] = unhealthyGPU]
    /\ UNCHANGED <<wvars, mvars, store, otherWrites, unhealthyGPU, gpuMutex, cycles,
                   health, attempt, fetchedRV, res, updLog, createLog,
                   faulted, owStart, owConflict, prev>>

\* the GPU the loop of line 268 is at
CurrentGPU(c) == metric[c].GPUs[Len(gpuDevices[c]) + 1]

\* line 270: s.gpuMutex.RLock()
buildRLock(c) ==
    /\ pc[c] = "rlock"
    /\ Alive
    /\ ~gpuMutex.w
    /\ gpuMutex' = [gpuMutex EXCEPT !.r = @ + 1]
    /\ health' = [health EXCEPT ![c] = TRUE]
    /\ pc' = [pc EXCEPT ![c] = "lookup"]
    /\ UNCHANGED <<wvars, mvars, store, otherWrites, unhealthyGPU, cycles, metric,
                   gpuDevices, attempt, fetchedRV, res, updLog, createLog,
                   faulted, owStart, owConflict, unhealthyAtStart, prev>>

\* lines 271-273: the lookup in s.unhealthyGPU
buildLookup(c) ==
    /\ pc[c] = "lookup"
    /\ Alive
    /\ health' = [health EXCEPT ![c] =
                    HealthLookup(CurrentGPU(c).DeviceUUID, unhealthyGPU)]
    /\ pc' = [pc EXCEPT ![c] = "runlock"]
    /\ UNCHANGED <<wvars, mvars, store, otherWrites, unhealthyGPU, gpuMutex, cycles,
                   metric, gpuDevices, attempt, fetchedRV, res, updLog,
                   createLog, faulted, owStart, owConflict,
                   unhealthyAtStart, prev>>

\* lines 274-286: s.gpuMutex.RUnlock() and the append
buildRUnlock(c) ==
    /\ pc[c] = "runlock"
    /\ Alive
    /\ gpuMutex' = [gpuMutex EXCEPT !.r = @ - 1]
    /\ gpuDevices' = [gpuDevices EXCEPT ![c] =
                        Append(@, DeviceInfo(CurrentGPU(c), health[c]))]
    /\ pc' = [pc EXCEPT ![c] =
                IF Len(gpuDevices[c]) + 1 < Len(metric[c].GPUs)
                THEN "rlock" ELSE "built"]
    /\ health' = [health EXCEPT ![c] = TRUE]
    /\ UNCHANGED <<wvars, mvars, store, otherWrites, unhealthyGPU, cycles, metric,
                   attempt, fetchedRV, res, updLog, createLog, faulted,
                   owStart, owConflict, unhealthyAtStart, prev>>

(***************************************************************************)
(* updateDevice, lines 228-254.                                            *)
(***************************************************************************)
\* lines 229-234: sorter(gpuDevices), in place: reportDevice's slice is
\* the same array and is sorted with it
updateDevice(c) ==
    /\ c \in Reporters \cup Overlapping
    /\ pc[c] = "built"
    /\ Alive
    /\ gpuDevices' = [gpuDevices EXCEPT ![c] = sorter(@)]
    /\ attempt' = [attempt EXCEPT ![c] = 1]
    /\ pc' = [pc EXCEPT ![c] = "get"]
    /\ metric' = [metric EXCEPT ![c] = NoMetric]
    /\ unhealthyAtStart' = [unhealthyAtStart EXCEPT ![c] = {}]
    /\ UNCHANGED <<wvars, mvars, store, otherWrites, unhealthyGPU, gpuMutex, cycles,
                   health, fetchedRV, res, updLog, createLog,
                   faulted, owStart, owConflict, prev>>

\* a faulty variant: the comparison left out, every cycle writes
UnchangedNever(c, stored) == FALSE

\* a faulty variant: the fetched list compared as stored, unsorted
UnchangedUnsorted(c, stored) == DeepEqual(gpuDevices[c], stored)

\* lines 241-246: sort the fetched list, compare
Unchanged(c, stored) == DeepEqual(gpuDevices[c], sorter(stored))

\* a faulty variant: Get called once, before the retry loop: a later attempt
\* sends the resourceVersion of the first
FetchedVersionOnce(c) == IF attempt[c] = 1 THEN store.rv ELSE fetchedRV[c]

\* line 237: Get is called by every attempt; device carries the
\* resourceVersion it returned
FetchedVersion(c) == store.rv

\* lines 237-246: Get inside the closure, sort, compare
updateGet(c) ==
    /\ pc[c] = "get"
    /\ Alive
    /\ \E err \in GetResults :
          LET e == IF err = "nil" /\ ~Unchanged(c, store.devices)
                   THEN "update" ELSE err
              n == AfterAttempt(c, err)
          IN  /\ pc' = [pc EXCEPT ![c] = IF e = "update" THEN "update"
                                         ELSE n.pc]
              /\ res' = [res EXCEPT ![c] = IF e = "update" THEN @ ELSE n.res]
              /\ attempt' = [attempt EXCEPT ![c] =
                               IF e = "update" THEN @ ELSE n.attempt]
              /\ faulted' = [faulted EXCEPT ![c] = @ \/ err \in StoreFaults]
    /\ fetchedRV' = [fetchedRV EXCEPT ![c] = FetchedVersion(c)]
    /\ UNCHANGED <<wvars, mvars, store, otherWrites, unhealthyGPU, gpuMutex, cycles,
                   metric, gpuDevices, health, updLog, createLog, owStart,
                   owConflict, unhealthyAtStart, prev>>

\* lines 248-252: replace the Spec and Update
updateWrite(c) ==
    /\ pc[c] = "update"
    /\ Alive
    /\ \E err \in UpdateResults(fetchedRV[c]) :
          LET n == AfterAttempt(c, err)
          IN  /\ pc' = [pc EXCEPT ![c] = n.pc]
              /\ res' = [res EXCEPT ![c] = n.res]
              /\ attempt' = [attempt EXCEPT ![c] = n.attempt]
              /\ store' = IF err = "nil" THEN Written(gpuDevices[c])
                          ELSE store
              /\ updLog' = [updLog EXCEPT ![c] = Append(@, err)]
              /\ faulted' = [faulted EXCEPT ![c] = @ \/ err \in StoreFaults]
              /\ owConflict' = [owConflict EXCEPT ![c] =
                                  IF err = "Conflict" /\ updLog[c] = <<>>
                                  THEN otherWrites ELSE @]
    /\ UNCHANGED <<wvars, mvars, fetchedRV, otherWrites, unhealthyGPU, gpuMutex, cycles, metric,
                   gpuDevices, health, createLog, owStart,
                   unhealthyAtStart, prev>>

(***************************************************************************)
(* createDevice, lines 204-226, and reportDevice's lines 196-201.          *)
(***************************************************************************)
\* what reportDevice logs after createDevice returned err
AfterCreateDevice(err) == IF err = "nil" THEN "ok" ELSE "failed"

createDevice(c) ==
    /\ pc[c] = "create"
    /\ Alive
    /\ \E err \in CreateResults :
          /\ store' = IF err = "nil" THEN Written(gpuDevices[c]) ELSE store
          /\ createLog' = [createLog EXCEPT ![c] = err]
          /\ res' = [res EXCEPT ![c] = AfterCreateDevice(err)]
          /\ faulted' = [faulted EXCEPT ![c] = @ \/ err \in StoreFaults]
    /\ pc' = [pc EXCEPT ![c] = "done"]
    /\ UNCHANGED <<wvars, mvars, otherWrites, unhealthyGPU, gpuMutex, cycles, metric,
                   gpuDevices, health, attempt, fetchedRV, updLog, owStart,
                   owConflict, unhealthyAtStart, prev>>

(***************************************************************************)
(* The NVML library, as the monitor reads it.                              *)
(***************************************************************************)
\* what the enumeration of lines 312-324 can leave in devices: per index,
\* nothing (no handle), the empty string (GetUUID failed: the zero value
\* is appended all the same) or the UUID of the device
RECURSIVE Enumerations(_)
Enumerations(count) ==
    IF count = 0 THEN {<<>>}
    ELSE LET before == Enumerations(count - 1)
         IN  before
             \cup {Append(l, EmptyUUID) : l \in before}
             \cup {Append(l, UUIDOf(count - 1)) : l \in before}

\* Xid codes an event can carry: the application errors of line 379, and
\* a hardware error (48, a double-bit ECC error)
ApplicationXids == {13, 31, 43, 45, 68}

Xids == ApplicationXids \cup {48}

\* what eventSet.Wait can return: e and ret, with the result of
\* e.Device.GetUUID(), whose string is empty when it fails
Events ==
    {e \in [ret : {"SUCCESS", "TIMEOUT", "ERROR"},
            EventType : {"XidCriticalError", "other"},
            EventData : Xids,
            uuidRet : {"SUCCESS", "ERROR"},
            uuid : AllUUIDs \cup {EmptyUUID}] :
        e.uuidRet = "ERROR" => e.uuid = EmptyUUID}

\* line 373: the event is skipped
SkippedByType(e) ==
    e.ret # "SUCCESS" /\ e.EventType # "XidCriticalError"

\* a faulty variant: the test of line 379 left out
SkippedByXidNever(e) == FALSE

\* line 379: an application error
SkippedByXid(e) == e.EventData \in ApplicationXids

\* lines 373-401, up to the first send: "skip", "all" or "one"
Disposition(e) ==
    IF SkippedByType(e) THEN "skip"
    ELSE IF SkippedByXid(e) THEN "skip"
    ELSE IF e.uuidRet # "SUCCESS" THEN "skip"
    ELSE IF Len(e.uuid) = 0 THEN "all"
    ELSE "one"

\* a faulty variant: the comparison of line 398 left out, every device sent
NextMatchAny(l, i, u) == i

\* the first index from i on whose device is u; past the end when none
RECURSIVE NextMatch(_, _, _)
NextMatch(l, i, u) ==
    IF i > Len(l) THEN i
    ELSE IF l[i] = u THEN i
    ELSE NextMatch(l, i + 1, u)

(***************************************************************************)
(* initGPU, lines 290-300, and gpuHealCheck, lines 302-335.                *)
(***************************************************************************)
\* nvml.Init(): on failure the monitor is never started
initGPU ==
    /\ pcHC = "init"
    /\ \E ok \in BOOLEAN :
          pcHC' = IF ok THEN "start" ELSE "disabled"
    /\ UNCHANGED <<wvars, rvars, appFault, unsupported, unhealthyGPU, gpuMutex, stopCh, pcCH, devs, idx,
                   uuid, recvd, eventSet, fallbackDone, waitsAfterStop>>

\* lines 303-326: count, enumerate, go checkHealth
gpuHealCheck ==
    /\ pcHC = "start"
    /\ \E countOK \in BOOLEAN, count \in 0 .. MaxGPU :
          IF ~countOK \/ count = 0
          THEN /\ pcHC' = "returned"
               /\ UNCHANGED <<devs, pcCH>>
          ELSE /\ \E l \in Enumerations(count) : devs' = l
               /\ pcHC' = "recv"
               /\ pcCH' = "create"
    /\ UNCHANGED <<wvars, rvars, appFault, unsupported, unhealthyGPU, gpuMutex, stopCh, idx, uuid, recvd,
                   eventSet, fallbackDone, waitsAfterStop>>

\* a faulty variant: Lock that does not wait for the readers
LockableBesideReaders(m) == ~m.w

\* sync.RWMutex: Lock is granted when no writer and no reader holds it
Lockable(m) == ~m.w /\ m.r = 0

\* line 330: s.gpuMutex.Lock()
healCheckLock ==
    /\ pcHC = "lock"
    /\ Alive
    /\ Lockable(gpuMutex)
    /\ gpuMutex' = [gpuMutex EXCEPT !.w = TRUE]
    /\ pcHC' = "insert"
    /\ UNCHANGED <<wvars, rvars, appFault, unsupported, unhealthyGPU, stopCh, pcCH, devs, idx, uuid,
                   recvd, eventSet, fallbackDone, waitsAfterStop>>

\* a faulty variant: the map holds the last unhealthy device only
InsertReplacing(set, d) == {d}

\* line 331: s.unhealthyGPU[d] = struct{}{}
Insert(set, d) == set \cup {d}

healCheckInsert ==
    /\ pcHC = "insert"
    /\ Alive
    /\ unhealthyGPU' = Insert(unhealthyGPU, recvd)
    /\ pcHC' = "unlock"
    /\ UNCHANGED <<wvars, rvars, appFault, unsupported, gpuMutex, stopCh, pcCH, devs, idx, uuid, recvd,
                   eventSet, fallbackDone, waitsAfterStop>>

\* lines 332-334: Unlock, log, and back to the range over the channel
healCheckUnlock ==
    /\ pcHC = "unlock"
    /\ Alive
    /\ gpuMutex' = [gpuMutex EXCEPT !.w = FALSE]
    /\ pcHC' = "recv"
    /\ recvd' = EmptyUUID
    /\ UNCHANGED <<wvars, rvars, appFault, unsupported, unhealthyGPU, stopCh, pcCH, devs, idx, uuid,
                   eventSet, fallbackDone, waitsAfterStop>>

(***************************************************************************)
(* checkHealth, lines 338-403.  xids is unbuffered: a send completes with  *)
(* the receive of line 328, in one step of both goroutines.                *)
(***************************************************************************)
\* lines 339-344: EventSetCreate; os.Exit(1) when it fails
checkHealthCreate ==
    /\ pcCH = "create"
    /\ \E ok \in BOOLEAN :
          IF ok
          THEN /\ eventSet' = "held"
               /\ pcCH' = IF Len(devs) = 0 THEN "select" ELSE "register"
          ELSE /\ eventSet' = eventSet
               /\ pcCH' = "exited"
    /\ idx' = 1
    /\ UNCHANGED <<wvars, rvars, appFault, unsupported, unhealthyGPU, gpuMutex, stopCh, pcHC, devs, uuid,
                   recvd, fallbackDone, waitsAfterStop>>

\* what the registration of one device can come to: the handle of the
\* empty UUID is never found
RegisterResults(d) ==
    IF d = EmptyUUID THEN {"NO_HANDLE"}
    ELSE {"NO_HANDLE", "SUCCESS", "ERROR_NOT_SUPPORTED", "ERROR"}

\* position after the loop of lines 346-363 is done with devs[i]
AfterRegister(i) == IF i < Len(devs) THEN "register" ELSE "select"

\* lines 347-362 for devs[idx]
checkHealthRegister ==
    /\ pcCH = "register"
    /\ \E r \in RegisterResults(devs[idx]) :
          IF r = "ERROR_NOT_SUPPORTED"
          THEN /\ pcCH' = "sendUnsupported"
               /\ idx' = idx
               /\ unsupported' = unsupported \cup {devs[idx]}
          ELSE /\ pcCH' = AfterRegister(idx)
               /\ idx' = idx + 1
               /\ unsupported' = unsupported
    /\ UNCHANGED <<wvars, rvars, appFault, unhealthyGPU, gpuMutex, stopCh, pcHC, devs, uuid,
                   recvd, eventSet, fallbackDone, waitsAfterStop>>

\* line 355: xids <- d, received by line 328
checkHealthSendUnsupported ==
    /\ pcCH = "sendUnsupported"
    /\ pcHC = "recv"
    /\ recvd' = devs[idx]
    /\ pcHC' = "lock"
    /\ pcCH' = AfterRegister(idx)
    /\ idx' = idx + 1
    /\ UNCHANGED <<wvars, rvars, appFault, unsupported, unhealthyGPU, gpuMutex, stopCh, devs, uuid,
                   eventSet, fallbackDone, waitsAfterStop>>

\* lines 366-370: the select on stopCh; the deferred eventSet.Free()
checkHealthSelect ==
    /\ pcCH = "select"
    /\ IF stopCh
       THEN /\ pcCH' = "returned"
            /\ eventSet' = "freed"
       ELSE /\ pcCH' = "wait"
            /\ eventSet' = eventSet
    /\ appFault' = FALSE
    /\ UNCHANGED <<wvars, rvars, unsupported, unhealthyGPU, gpuMutex, stopCh, pcHC, devs, idx,
                   uuid, recvd, fallbackDone, waitsAfterStop>>

\* a faulty variant: stopCh is only looked at before the first Wait
AfterEventOnce == "wait"

\* the continue statements of the loop of line 365 lead to its select
AfterEvent == "select"

\* what lines 373-389 make of the event e that Wait returned: skipped,
\* all devices to be sent, or the device of its UUID to be sent
Handling(e) ==
    [disp |-> Disposition(e),
     uuid |-> IF Disposition(e) = "one" THEN e.uuid ELSE EmptyUUID,
     appFault |-> (/\ e.ret = "SUCCESS"
                   /\ e.EventType = "XidCriticalError"
                   /\ e.EventData \in ApplicationXids
                   /\ e.uuid = EmptyUUID)]

Handlings == {Handling(e) : e \in Events}

\* lines 372-401: Wait returns an event handled as h; up to the first
\* send, or to the next turn of the loop
checkHealthHandle(h) ==
    /\ pcCH = "wait"
    /\ waitsAfterStop' = IF stopCh /\ waitsAfterStop < 2
                         THEN waitsAfterStop + 1 ELSE waitsAfterStop
    /\ LET disp == h.disp
           first == IF disp = "one" THEN NextMatch(devs, 1, h.uuid) ELSE 1
       IN  /\ pcCH' = IF disp = "skip" \/ first > Len(devs) THEN AfterEvent
                      ELSE IF disp = "all" THEN "sendAll"
                      ELSE "sendOne"
           /\ idx' = first
           /\ uuid' = IF disp = "one" /\ first <= Len(devs) THEN h.uuid
                      ELSE EmptyUUID
           /\ fallbackDone' = (fallbackDone \/ (disp = "all" /\ Len(devs) = 0))
           /\ appFault' = h.appFault
    /\ unsupported' = {}
    /\ UNCHANGED <<wvars, rvars, unhealthyGPU, gpuMutex, stopCh, pcHC, devs, recvd,
                   eventSet>>

\* the step in which Wait returns e
checkHealthWaitEvent(e) == checkHealthHandle(Handling(e))

checkHealthWait == \E h \in Handlings : checkHealthHandle(h)

\* a faulty variant: the loop of line 391 left after its first send
MoreToSendFirstOnly(i) == FALSE

\* line 391: for _, d := range devs
MoreToSend(i) == i < Len(devs)

\* line 392: xids <- d for every device, received by line 328
checkHealthSendAll ==
    /\ pcCH = "sendAll"
    /\ pcHC = "recv"
    /\ recvd' = devs[idx]
    /\ pcHC' = "lock"
    /\ pcCH' = IF MoreToSend(idx) THEN "sendAll" ELSE AfterEvent
    /\ idx' = idx + 1
    /\ fallbackDone' = (fallbackDone \/ ~MoreToSend(idx))
    /\ UNCHANGED <<wvars, rvars, appFault, unsupported, unhealthyGPU, gpuMutex, stopCh, devs, uuid,
                   eventSet, waitsAfterStop>>

\* lines 397-401: xids <- d for the device of the event
checkHealthSendOne ==
    /\ pcCH = "sendOne"
    /\ pcHC = "recv"
    /\ recvd' = devs[idx]
    /\ pcHC' = "lock"
    /\ LET next == NextMatch(devs, idx + 1, uuid)
       IN  /\ pcCH' = IF next > Len(devs) THEN AfterEvent ELSE "sendOne"
           /\ idx' = next
           /\ uuid' = IF next > Len(devs) THEN EmptyUUID ELSE uuid
    /\ UNCHANGED <<wvars, rvars, appFault, unsupported, unhealthyGPU, gpuMutex, stopCh, devs, eventSet,
                   fallbackDone, waitsAfterStop>>

\* the owner of stopCh closes it
closeStopCh ==
    /\ ~stopCh
    /\ stopCh' = TRUE
    /\ UNCHANGED <<wvars, rvars, appFault, unsupported, unhealthyGPU, gpuMutex, pcHC, pcCH, devs, idx,
                   uuid, recvd, eventSet, fallbackDone, waitsAfterStop>>

(***************************************************************************)
(* The pod validating webhook: Handle, lines 78-84, and validatingPodFn,   *)
(* lines 55-73.  The two validations it calls are answered by their        *)
(* packages: any outcome is possible.                                      *)
(***************************************************************************)
\* admission requests: sub-resource, resource, operation, raw old object
Requests ==
    [SubResource : {"", "status", "exec"},
     Resource : {"pods", "configmaps"},
     Operation : {"CREATE", "UPDATE", "DELETE", "CONNECT"},
     OldObjectRaw : {"", "{pod}"}]

NoRequest ==
    [SubResource |-> "", Resource |-> "", Operation |-> "", OldObjectRaw |-> ""]

\* allowed, reason and err of validatingPodFn; Allowed and Code of the
\* admission.Response once Handle has returned
NoResponse == [allowed |-> TRUE, err |-> "nil", Allowed |-> FALSE, Code |-> 0]

\* a faulty variant: requests to sub-resources of pods are not ignored
ShouldIgnoreByResourceOnly(r) == r.Resource # "pods"

\* lines 46-53
shouldIgnoreIfNotPod(r) ==
    Len(r.SubResource) # 0 \/ r.Resource # "pods"

\* line 60
DeleteWithoutOldObject(r) ==
    r.Operation = "DELETE" /\ Len(r.OldObjectRaw) = 0

InitIdleWebhook ==
    /\ pcW = "idle"
    /\ req = NoRequest
    /\ validated = {}
    /\ resp = NoResponse

\* Handle is called with a request; line 56: allowed = true
Handle ==
    /\ pcW \in {"idle", "done"}
    /\ \E r \in Requests : req' = r
    /\ validated' = {}
    /\ resp' = NoResponse
    /\ pcW' = "fn"
    /\ UNCHANGED <<rvars, unhealthyGPU, gpuMutex, mvars>>

\* lines 57-63: the early returns of validatingPodFn
validatingPodFn ==
    /\ pcW = "fn"
    /\ pcW' = IF shouldIgnoreIfNotPod(req) \/ DeleteWithoutOldObject(req)
              THEN "respond" ELSE "profile"
    /\ UNCHANGED <<rvars, unhealthyGPU, gpuMutex, mvars, req, validated, resp>>

\* line 65: allowed, reason, err = clusterColocationProfileValidatingPod
clusterColocationProfileValidatingPod ==
    /\ pcW = "profile"
    /\ \E a \in BOOLEAN, e \in {"nil", "profile error"} :
          /\ resp' = [resp EXCEPT !.allowed = a, !.err = e]
          /\ pcW' = IF e = "nil" THEN "quota" ELSE "respond"
    /\ validated' = validated \cup {"profile"}
    /\ UNCHANGED <<rvars, unhealthyGPU, gpuMutex, mvars, req>>

\* lines 66-72: plugin.ValidatePod; its error replaces the result
ValidatePod ==
    /\ pcW = "quota"
    /\ \E e \in {"nil", "quota error"} :
          resp' = IF e = "nil" THEN resp
                  ELSE [resp EXCEPT !.allowed = FALSE, !.err = e]
    /\ validated' = validated \cup {"quota"}
    /\ pcW' = "respond"
    /\ UNCHANGED <<rvars, unhealthyGPU, gpuMutex, mvars, req>>

\* lines 80-83: admission.Errored(http.StatusBadRequest, err), or
\* admission.ValidationResponse(allowed, reason)
HandleReturn ==
    /\ pcW = "respond"
    /\ resp' = IF resp.err # "nil"
               THEN [resp EXCEPT !.Allowed = FALSE, !.Code = 400]
               ELSE [resp EXCEPT !.Allowed = resp.allowed,
                                 !.Code = IF resp.allowed THEN 200 ELSE 403]
    /\ pcW' = "done"
    /\ UNCHANGED <<rvars, unhealthyGPU, gpuMutex, mvars, req, validated>>

(***************************************************************************)
(* The reconciler against the store: the monitor is not running.           *)
(***************************************************************************)
\* the locals of the callers before their first call
InitLocals ==
    /\ pc = [c \in Procs |-> "idle"]
    /\ metric = [c \in Procs |-> NoMetric]
    /\ gpuDevices = [c \in Procs |-> <<>>]
    /\ health = [c \in Procs |-> TRUE]
    /\ attempt = [c \in Procs |-> 1]
    /\ fetchedRV = [c \in Procs |-> 0]
    /\ res = [c \in Procs |-> "none"]
    /\ updLog = [c \in Procs |-> <<>>]
    /\ createLog = [c \in Procs |-> "none"]
    /\ faulted = [c \in Procs |-> FALSE]
    /\ owStart = [c \in Procs |-> 0]
    /\ owConflict = [c \in Procs |-> 0]
    /\ unhealthyAtStart = [c \in Procs |-> {}]
    /\ prev = [c \in Procs |-> NoPrev]

InitFrames ==
    /\ cycles = [c \in Procs |-> 0]
    /\ InitLocals


InitReconcile ==
    /\ InitFrames
    /\ store \in {NoDevice} \cup
                 {[exists |-> TRUE, devices |-> l, rv |-> 1] :
                     l \in OtherDeviceLists}
    /\ otherWrites = 0
    /\ unhealthyGPU \in SUBSET AllUUIDs
    /\ gpuMutex = [w |-> FALSE, r |-> 0]
    \* the monitor has run and was stopped; gpuHealCheck is left at the
    \* range over the channel
    /\ stopCh = TRUE
    /\ pcHC = "recv"
    /\ pcCH = "returned"
    /\ devs = [i \in 1 .. MaxGPU |-> UUIDOf(i - 1)]
    /\ idx = 1
    /\ uuid = EmptyUUID
    /\ recvd = EmptyUUID
    /\ eventSet = "freed"
    /\ fallbackDone = FALSE
    /\ waitsAfterStop = 0
    /\ unsupported = {}
    /\ appFault = FALSE
    /\ InitIdleWebhook

NextReconcile ==
    \/ OtherWrite
    \/ \E c \in Reporters :
          \/ reportDevice(c)
          \/ buildQuery(c)
          \/ buildRLock(c)
          \/ buildLookup(c)
          \/ buildRUnlock(c)
          \/ updateDevice(c)
          \/ updateGet(c)
          \/ updateWrite(c)
          \/ createDevice(c)

SpecReconcile == InitReconcile /\ [][NextReconcile]_vars

(***************************************************************************)
(* Two reportDevice cycles for the same node, started by a driver that     *)
(* does not serialize them; no other writer.                               *)
(***************************************************************************)
InitOverlap ==
    /\ InitLocals
    \* one cycle each
    /\ cycles = [c \in Procs |-> MaxCycles - 1]
    /\ store \in {NoDevice} \cup
                 {[exists |-> TRUE, devices |-> l, rv |-> 1] :
                     l \in OtherDeviceLists}
    /\ otherWrites = 0
    /\ unhealthyGPU \in {{}, {UUIDOf(0)}}
    /\ gpuMutex = [w |-> FALSE, r |-> 0]
    /\ stopCh = TRUE
    /\ pcHC = "recv"
    /\ pcCH = "returned"
    /\ devs = [i \in 1 .. MaxGPU |-> UUIDOf(i - 1)]
    /\ idx = 1
    /\ uuid = EmptyUUID
    /\ recvd = EmptyUUID
    /\ eventSet = "freed"
    /\ fallbackDone = FALSE
    /\ waitsAfterStop = 0
    /\ unsupported = {}
    /\ appFault = FALSE
    /\ InitIdleWebhook

\* the steps of one cycle of caller c, once reportDevice was called
CycleStep(c) ==
    \/ buildQuery(c)
    \/ buildRLock(c)
    \/ buildLookup(c)
    \/ buildRUnlock(c)
    \/ updateDevice(c)
    \/ updateGet(c)
    \/ updateWrite(c)
    \/ createDevice(c)

NextOverlap ==
    \E c \in Overlapping :
        \/ reportDevice(c)
        \/ CycleStep(c)

SpecOverlap == InitOverlap /\ [][NextOverlap]_vars

\* a cycle that was started runs on: the goroutine is scheduled and every
\* call to the store and to the metric cache returns
FairOverlap ==
    SpecOverlap /\ \A c \in Overlapping : WF_vars(CycleStep(c))

(***************************************************************************)
(* The monitor, with a caller of buildGPUDevice reading what it marks.     *)
(***************************************************************************)
InitMonitor ==
    /\ InitFrames
    /\ store = NoDevice
    /\ otherWrites = 0
    /\ unhealthyGPU = {}
    /\ gpuMutex = [w |-> FALSE, r |-> 0]
    /\ stopCh = FALSE
    /\ pcHC = "init"
    /\ pcCH = "none"
    /\ devs = <<>>
    /\ idx = 1
    /\ uuid = EmptyUUID
    /\ recvd = EmptyUUID
    /\ eventSet = "none"
    /\ fallbackDone = FALSE
    /\ waitsAfterStop = 0
    /\ unsupported = {}
    /\ appFault = FALSE
    /\ InitIdleWebhook

NextHealth ==
    \/ initGPU
    \/ gpuHealCheck
    \/ healCheckLock
    \/ healCheckInsert
    \/ healCheckUnlock
    \/ checkHealthCreate
    \/ checkHealthRegister
    \/ checkHealthSendUnsupported
    \/ checkHealthSelect
    \/ checkHealthWait
    \/ checkHealthSendAll
    \/ checkHealthSendOne
    \/ closeStopCh

NextBuild ==
    \E c \in Builders :
        \/ callBuildGPUDevice(c)
        \/ buildQuery(c)
        \/ buildRLock(c)
        \/ buildLookup(c)
        \/ buildRUnlock(c)

NextMonitor == NextHealth \/ NextBuild

SpecMonitor == InitMonitor /\ [][NextMonitor]_vars

(***************************************************************************)
(* The webhook serving requests, one at a time.                            *)
(***************************************************************************)
NextWebhook ==
    \/ Handle
    \/ validatingPodFn
    \/ clusterColocationProfileValidatingPod
    \/ ValidatePod
    \/ HandleReturn

SpecWebhook == InitMonitor /\ [][NextWebhook]_vars

(***************************************************************************)
(* Properties of the reconciler.                                           *)
(***************************************************************************)
Range(l) == {l[k] : k \in DOMAIN l}

\* the same records, in any order
SameRecords(a, b) == Len(a) = Len(b) /\ Range(a) = Range(b)

\* the cycle of c has built and sorted its snapshot
Reconciling(c) == pc[c] \in {"get", "update", "create", "done"}

\* the cycle of c has issued a Create or an Update
IssuesWrite(c) == updLog[c] # <<>> \/ createLog[c] # "none"

\* C1: whenever the metrics query returns an error or no device,
\* buildGPUDevice yields an empty snapshot and the cycle issues neither a
\* Create nor an Update, whatever the Device object holds.
C1_EmptyMetricsNoWrite ==
    \A c \in Reporters :
        /\ (pc[c] = "built" /\ (metric[c].Error \/ Len(metric[c].GPUs) = 0))
              => Len(gpuDevices[c]) = 0
        /\ (Reconciling(c) /\ Len(gpuDevices[c]) = 0) => ~IssuesWrite(c)

\* the second of two calls in succession with the same snapshot, no other
\* writer having written since the first started
SecondOfTwo(c) ==
    /\ Reconciling(c)
    /\ prev[c].valid
    /\ prev[c].snap = gpuDevices[c]
    /\ prev[c].ow = otherWrites

C3_ConflictRetry ==
    \A c \in Reporters :
        (/\ pc[c] = "done"
         /\ updLog[c] # <<>>
         /\ updLog[c][1] = "Conflict"
         /\ ~faulted[c]
         /\ owConflict[c] = otherWrites)
            => /\ res[c] = "ok"
               /\ SameRecords(store.devices, gpuDevices[c])
               /\ (Len(updLog[c]) > 1 => /\ updLog[c] = <<"Conflict", "nil">>
                                         /\ store.devices = gpuDevices[c])

C3_Witness ==
    \E c \in Reporters :
        /\ pc[c] = "done"
        /\ updLog[c] = <<"Conflict", "nil">>
        /\ res[c] = "ok"
        /\ store.devices = gpuDevices[c]
        /\ Len(gpuDevices[c]) > 0

\* C7: when the stored list holds the records of the snapshot in another
\* order, updateDevice finds the two equal after sorting and issues no
\* Update.
C7_OrderInsensitive ==
    [][\A c \in Reporters :
          (/\ pc[c] = "get"
           /\ store.exists
           /\ SameRecords(store.devices, gpuDevices[c]))
             => /\ pc'[c] # "update"
                /\ updLog'[c] = updLog[c]
                /\ store' = store \/ otherWrites' # otherWrites]_vars

C7_Witness ==
    \E c \in Reporters :
        /\ pc[c] = "done"
        /\ res[c] = "ok"
        /\ ~IssuesWrite(c)
        /\ otherWrites = 0
        /\ cycles[c] = 1
        /\ SameRecords(store.devices, gpuDevices[c])
        /\ store.devices # gpuDevices[c]

\* C8: when createDevice fails because the object already exists, the
\* cycle falls back to the update path: it ends with the snapshot stored
\* and logs no failure.
C8_CreateRaceFallsBack ==
    \A c \in Reporters :
        (pc[c] = "done" /\ createLog[c] = "AlreadyExists")
            => /\ res[c] = "ok"
               /\ SameRecords(store.devices, gpuDevices[c])

(***************************************************************************)
(* The monitor under the scheduling of the Go runtime: a goroutine that    *)
(* can run does run; eventSet.Wait returns within its timeout; a pending   *)
(* Lock of the RWMutex keeps new readers out, so the writer gets the lock  *)
(* although readers come and go.  Closing stopCh and calling               *)
(* buildGPUDevice are up to the callers.                                   *)
(***************************************************************************)
FairHealCheck ==
    /\ WF_vars(initGPU \/ gpuHealCheck \/ healCheckInsert \/ healCheckUnlock)
    /\ SF_vars(healCheckLock)

FairCheckHealth ==
    WF_vars(\/ checkHealthCreate
            \/ checkHealthRegister
            \/ checkHealthSendUnsupported
            \/ checkHealthSelect
            \/ checkHealthWait
            \/ checkHealthSendAll
            \/ checkHealthSendOne)

FairBuild == \A c \in Builders : WF_vars(buildLookup(c) \/ buildRUnlock(c))

FairMonitor == SpecMonitor /\ FairHealCheck /\ FairCheckHealth /\ FairBuild

(***************************************************************************)
(* Properties of the monitor and of buildGPUDevice.                        *)
(***************************************************************************)
\* the record buildGPUDevice is to report for a GPU of the metrics
ExpectedRecord(gpu, unhealthy) ==
    [UUID |-> gpu.DeviceUUID, Minor |-> gpu.Minor, Type |-> "gpu",
     Health |-> (gpu.DeviceUUID \notin unhealthy),
     Resources |-> [GPUCore |-> 100, GPUMemory |-> gpu.MemoryTotal,
                    GPUMemoryRatio |-> 100]]

\* C4: no step removes an identifier from the unhealthy set, and a
\* snapshot build reports unhealthy every identifier of its metrics that
\* was in the set when the build started.
C4_HealthMonotone ==
    /\ [][unhealthyGPU \subseteq unhealthyGPU']_vars
    /\ [](\A c \in Procs :
            /\ \A k \in DOMAIN gpuDevices[c] :
                  gpuDevices[c][k].UUID \in unhealthyAtStart[c]
                     => ~gpuDevices[c][k].Health
            /\ pc[c] = "built" =>
                  \A g \in Range(metric[c].GPUs) :
                     g.DeviceUUID \in unhealthyAtStart[c]
                        => \E k \in DOMAIN gpuDevices[c] :
                              /\ gpuDevices[c][k].UUID = g.DeviceUUID
                              /\ ~gpuDevices[c][k].Health)

C4_Witness ==
    \E c \in Builders :
        /\ pc[c] = "built"
        /\ Len(gpuDevices[c]) = 2
        /\ gpuDevices[c][1].UUID \in unhealthyAtStart[c]
        /\ ~gpuDevices[c][1].Health
        /\ gpuDevices[c][2].Health
        /\ gpuDevices[c][2].UUID \in unhealthyGPU

\* every device of devs is in the unhealthy set
AllDevsUnhealthy == \A d \in Range(devs) : d \in unhealthyGPU

\* C5, as stated: after an event without identifier, every monitored
\* device is in the unhealthy set before the loop handles the next event.
C5_AllBeforeNextEvent ==
    [][(/\ fallbackDone
        /\ \E e \in Events : e.ret = "SUCCESS" /\ checkHealthWaitEvent(e))
          => AllDevsUnhealthy]_vars

\* C5, amended: after an event without identifier, every monitored device
\* has been sent to gpuHealCheck before the loop handles the next event;
\* each is in the unhealthy set by then, but for the one sent last, which
\* gpuHealCheck may still hold, about to insert it; in the end all are in
\* the set.
C5_FallbackMarksAll ==
    /\ [](fallbackDone =>
            \A d \in Range(devs) :
                \/ d \in unhealthyGPU
                \/ (pcHC \in {"lock", "insert"} /\ recvd = d
                      /\ d = devs[Len(devs)]))
    /\ (fallbackDone ~> AllDevsUnhealthy)

C5_Witness ==
    /\ fallbackDone
    /\ Len(devs) = 2
    /\ devs[1] # devs[2]
    /\ pcCH = "wait"
    /\ devs[1] \in unhealthyGPU
    /\ devs[2] \notin unhealthyGPU
    /\ pcHC = "lock"

\* C6: for a successful query buildGPUDevice returns one record per GPU of
\* the metrics, in their order, and no other: UUID and minor of the
\* metric, core 100, memory the metric's total, memory ratio 100, healthy
\* when the UUID is not in the unhealthy set (false when it was in the set
\* as the build started, true when it is not in it as the build ends).
C6_SnapshotContent ==
    \A c \in Procs :
        /\ pc[c] \in {"rlock", "lookup", "runlock", "built"} =>
              /\ Len(gpuDevices[c]) <= Len(metric[c].GPUs)
              /\ \A k \in DOMAIN gpuDevices[c] :
                    \/ gpuDevices[c][k] =
                          ExpectedRecord(metric[c].GPUs[k], unhealthyGPU)
                    \/ gpuDevices[c][k] =
                          ExpectedRecord(metric[c].GPUs[k],
                                         unhealthyAtStart[c])
        /\ pc[c] = "built" => Len(gpuDevices[c]) = Len(metric[c].GPUs)

C6_Witness ==
    \E c \in Builders :
        /\ pc[c] = "built"
        /\ Len(gpuDevices[c]) = 2
        /\ unhealthyGPU = {gpuDevices[c][1].UUID}
        /\ unhealthyAtStart[c] = unhealthyGPU
        /\ ~gpuDevices[c][1].Health
        /\ gpuDevices[c][2].Health
        /\ gpuDevices[c][1].Minor > gpuDevices[c][2].Minor

\* C9: once stopCh is closed, checkHealth, holding its event set, returns;
\* at most one Wait call completes after the close, none after the select
\* saw it, and the event set is freed when checkHealth has returned.
C9_EventLoopCancels ==
    /\ [](waitsAfterStop <= 1)
    /\ [](pcCH = "returned" => eventSet = "freed")
    /\ [][(pcCH = "select" /\ stopCh) => pcCH' \in {"select", "returned"}]_vars
    /\ [][pcCH = "returned" => pcCH' = "returned"]_vars
    /\ ((stopCh /\ eventSet = "held") ~> pcCH = "returned")

C9_Witness ==
    /\ stopCh
    /\ pcCH = "returned"
    /\ waitsAfterStop = 1
    /\ eventSet = "freed"
    /\ unhealthyGPU # {}

\* a goroutine of the monitor has ended, or was never started
HealCheckEnded == pcHC \in {"returned", "disabled"} \/ ~Alive
CheckHealthEnded ==
    \/ pcCH \in {"returned", "exited"}
    \/ (pcCH = "none" /\ pcHC \in {"returned", "disabled"})

\* C10: once stopCh is closed, both goroutines of the monitor end.
C10_MonitorStops == stopCh ~> (CheckHealthEnded /\ HealCheckEnded)

(***************************************************************************)
(* Failures, the webhook, and the filters of the event loop.               *)
(***************************************************************************)
\* C11: no failure inside the core (NVML initialisation, device count or
\* handle, event set creation, registration, metrics, store) ends the
\* process.
C11_NeverExits == Alive

(***************************************************************************)
\* the request is to a sub-resource, or to a resource other than pods
NotAPodRequest == req.SubResource # "" \/ req.Resource # "pods"

\* C12: a request to a sub-resource or to a resource other than pods, and
\* a pod DELETE without old object, is allowed without an error response
\* and reaches neither the colocation-profile nor the quota validation.
C12_IgnoredRequestsAllowed ==
    (\/ NotAPodRequest
     \/ (req.Operation = "DELETE" /\ req.OldObjectRaw = ""))
       => /\ pcW \notin {"profile", "quota"}
          /\ validated = {}
          /\ pcW \in {"respond", "done"} => resp.allowed /\ resp.err = "nil"
          /\ pcW = "done" => resp.Allowed /\ resp.Code = 200

C12_Witness ==
    /\ pcW = "done"
    /\ req.Resource = "pods"
    /\ req.SubResource = "status"
    /\ req.Operation = "DELETE"
    /\ req.OldObjectRaw = "{pod}"
    /\ resp.Allowed

(***************************************************************************)
\* checkHealth is about to send a device of devs
Sending == pcCH \in {"sendAll", "sendOne"}

\* C13: an event whose type is not XidCriticalError leads to no send, so
\* to no insertion into the unhealthy set, whatever Wait returned with it.
C13_TypeFilter ==
    [][Sending' /\ ~Sending
          => \A e \in Events :
                checkHealthWaitEvent(e) => e.EventType = "XidCriticalError"]_vars

\* events with the Xid of an application error
ApplicationEvents == {e \in Events : e.EventData \in {13, 31, 43, 45, 68}}

\* C14: an event with Xid 13, 31, 43, 45 or 68 leads to no send, so to no
\* insertion into the unhealthy set, also when its device has no UUID:
\* the step in which Wait returns it leaves the set as it is and sends
\* nothing.
C14_ApplicationXidsIgnored ==
    /\ [][Sending' /\ ~Sending
            => \A e \in ApplicationEvents : ~checkHealthWaitEvent(e)]_vars
    /\ [][pcCH = "wait" /\ pcCH' # "wait"
            => unhealthyGPU' = unhealthyGPU /\ recvd' = recvd]_vars
    /\ [](appFault => ~Sending)

C14_Witness ==
    /\ appFault
    /\ pcCH = "select"
    /\ pcHC = "recv"
    /\ Len(devs) = 2
    /\ unhealthyGPU = {}

\* fault events that pass the filters and name a device
QualifyingEvents ==
    {e \in Events : /\ e.ret = "SUCCESS"
                    /\ e.EventType = "XidCriticalError"
                    /\ e.EventData \notin {13, 31, 43, 45, 68}
                    /\ e.uuidRet = "SUCCESS"
                    /\ e.uuid # EmptyUUID}

C16_UnsupportedBeforeWatching ==
    pcCH = "wait" => unsupported \subseteq unhealthyGPU

\* C20: the monitored list and the unhealthy set hold UUIDs of enumerated
\* devices only, never the empty string of a failed GetUUID.
C20_OnlyResolvedIdentifiers ==
    /\ EmptyUUID \notin Range(devs)
    /\ unhealthyGPU \subseteq (Range(devs) \ {EmptyUUID})

(***************************************************************************)
\* the device list is in ascending order of Minor
SortedByMinor(l) ==
    \A i, j \in DOMAIN l : i < j => l[i].Minor < l[j].Minor

\* C17: the device list a reportDevice cycle stores, by Update or by
\* Create, is its own snapshot sorted by Minor ascending, whatever the
\* order of the metrics.
C17_WritesSorted ==
    [][\A c \in Procs :
          (pc[c] \in {"update", "create"} /\ pc'[c] # pc[c] /\ store' # store)
             => /\ SortedByMinor(store'.devices)
                /\ store'.devices = gpuDevices[c]
                /\ SameRecords(store'.devices, gpuDevices[c])]_vars

C17_Witness ==
    \E c \in Reporters :
        /\ pc[c] = "done"
        /\ createLog[c] = "nil"
        /\ Len(store.devices) = 2
        /\ store.devices = gpuDevices[c]
        /\ store.devices[1].Minor < store.devices[2].Minor

\* the callers of buildGPUDevice that hold the read lock
ReadersInside == {c \in Procs : pc[c] \in {"lookup", "runlock"}}

\* C18: unhealthyGPU is changed only by gpuHealCheck holding the write
\* lock and looked up only under the read lock; the writer excludes
\* readers; the write lock is held for the insertion alone and a read lock
\* for one lookup alone, never across a metrics query, a store call, an
\* NVML call or a channel operation.
C18_LockDiscipline ==
    /\ [](pcHC = "insert" => gpuMutex.w)
    /\ [](gpuMutex.w <=> pcHC \in {"insert", "unlock"})
    /\ [](gpuMutex.r = Cardinality(ReadersInside))
    /\ [](~(gpuMutex.w /\ gpuMutex.r > 0))
    /\ [][unhealthyGPU' # unhealthyGPU
            => pcHC = "insert" /\ gpuMutex.w /\ gpuMutex.r = 0]_vars
    /\ [][\A c \in Procs : health'[c] # health[c] /\ pc[c] = "lookup"
            => ~gpuMutex.w /\ gpuMutex.r > 0]_vars

C18_Witness ==
    /\ gpuMutex.w
    /\ pcHC = "insert"
    /\ \E c \in Builders :
          /\ pc[c] = "rlock"
          /\ Len(gpuDevices[c]) = 1
          /\ gpuDevices[c][1].Health
          /\ recvd = gpuDevices[c][1].UUID

(***************************************************************************)
\* both overlapping cycles have finished
BothDone == \A c \in Overlapping : pc[c] = "done"

\* no Update is accepted for a resourceVersion other than the stored one
UpdatesChecked ==
    [][\A c \in Overlapping :
          (pc[c] = "update" /\ updLog'[c] = Append(updLog[c], "nil"))
             => /\ fetchedRV[c] = store.rv
                /\ store'.rv # store.rv]_vars

\* a started cycle finishes
CyclesTerminate ==
    \A c \in Overlapping : (pc[c] # "idle") ~> (pc[c] = "done")

\* the stored list is the snapshot of one of the two cycles
StoredIsASnapshot ==
    \E c \in Overlapping : SameRecords(store.devices, gpuDevices[c])

====
